---- MODULE Spec2Model ----
(***************************************************************************)
(* Archive / restore of trafficstats reports and analyses to and from S3.  *)
(* The relational store (report, analysis and analysis_report tables and   *)
(* the physical objects of each entity), the S3 bucket and the temporary   *)
(* files are the state; every promise chain of ts-archive-restore is a     *)
(* task whose position (pc) advances by one external call per step.        *)
(***************************************************************************)
EXTENDS Integers, Sequences, FiniteSets, TLC

VARIABLES
    report,          \* report table: id -> row
    analysis,        \* analysis table: id -> row
    analysis_report, \* link table: set of <<analysis, report>>
    objs,            \* physical objects of each entity: <<kind, id>> -> data or Absent
    s3,              \* S3: <<bucket, key>> -> body of the stored object
    files,           \* local file system: path -> file content
    tasks,           \* promise chains: task id -> record
    hist,            \* the two top-level calls completed before the current one
    calls,           \* number of calls the client has made
    mode,            \* how the client runs its calls: "waits", "eager", "overlaps"
    faults           \* number of collaborator failures so far

vars == <<report, analysis, analysis_report, objs, s3, files, tasks, hist, calls, mode, faults>>

\* Largest number of calls the client makes in one behaviour.
MaxCalls == 3

\* Largest number of calls a client that overlaps its calls makes.
MaxOverlapCalls == 2

\* Largest number of collaborator calls (query, pg_dump, S3 transfer, unlink)
\* that fail in one behaviour.
MaxFaults == 1

-----------------------------------------------------------------------------
(* Entities and configuration *)

Reports == {74, 75}
Analyses == {4, 5}

\* The link tables the model starts from (the table is never written).
\* The first is the one of the test: analysis 4 depends on reports 74 and 75.
LinkChoices ==
    { { <<4, 74>>, <<4, 75>>, <<5, 75>> },
      { <<4, 74>>, <<5, 74>> } }

NULL == <<>>
Absent == [kind |-> "none", id |-> 0]
Entities == ({"report"} \X Reports) \cup ({"analysis"} \X Analyses)

\* The ids a client passes: those of the rows and one that matches no row
ReportIds == Reports \cup {0}
AnalysisIds == Analyses \cup {0}

s3_bucket == <<"tomtomapac.com.trafficstats">>
database == "trafficstats_internal"
schema == "public"

PresentRow == [archive_location |-> NULL, archive_timestamp |-> NULL,
               restore_timestamp |-> NULL]

-----------------------------------------------------------------------------
(* Locators: strings as sequences of path segments and separators *)

\* `${database}/${schema}/report_${r}.dump`
reportKey(r) == <<database, "/", schema, "/", "report_", ToString(r), ".dump">>

\* One key for the dump of every analysis
analysisKey_shared(a) == <<database, "/", schema, "/", "analysis", ".dump">>

\* `${database}/${schema}/analysis_${a}.dump`
analysisKey(a) == <<database, "/", schema, "/", "analysis_", ToString(a), ".dump">>

\* `${data.Bucket}/${data.Key}`
locator(bucket, key) == bucket \o <<"/">> \o key

\* s3loc.indexOf('/'): 0-based position of the first separator, -1 if none
indexOfSlash(s) ==
    IF \E i \in 1..Len(s) : s[i] = "/"
    THEN (CHOOSE i \in 1..Len(s) : s[i] = "/" /\ \A j \in 1..(i-1) : s[j] # "/") - 1
    ELSE -1

\* A check that looks for a missing separator only
malformedLocator_missingOnly(s) == indexOfSlash(s) < 0

\* firstSlashPos <= 0 || firstSlashPos === s3loc.length - 1
malformedLocator(s) ==
    indexOfSlash(s) <= 0 \/ indexOfSlash(s) = Len(s) - 1

\* s3loc.substr(0, firstSlashPos): empty when the length is not positive
bucketOf(s) ==
    IF indexOfSlash(s) <= 0 THEN <<>> ELSE SubSeq(s, 1, indexOfSlash(s))

\* A key taken after the last separator
keyOf_lastSeparator(s) ==
    IF \A i \in 1..Len(s) : s[i] # "/" THEN s
    ELSE SubSeq(s, 1 + CHOOSE i \in 1..Len(s) :
                          s[i] = "/" /\ \A j \in (i+1)..Len(s) : s[j] # "/", Len(s))

\* s3loc.substr(firstSlashPos + 1)
keyOf(s) == SubSeq(s, indexOfSlash(s) + 2, Len(s))

-----------------------------------------------------------------------------
(* SQL statements of a clean-up script *)

Begin == [op |-> "BEGIN", kind |-> "none", id |-> 0, loc |-> NULL]
Commit == [op |-> "COMMIT", kind |-> "none", id |-> 0, loc |-> NULL]
DropStmt(kind, id) == [op |-> "DROP", kind |-> kind, id |-> id, loc |-> NULL]

\* update <table> set archive_location='<loc>', restore_timestamp=null,
\*   archive_timestamp=now() where id=<id>
UpdateStmt(kind, id, loc) == [op |-> "UPDATE", kind |-> kind, id |-> id, loc |-> loc]

\* The value of now()
Now == <<"now">>

\* An update that leaves archive_timestamp out
ArchivedRow_noTimestamp(loc) == [archive_location |-> loc, archive_timestamp |-> NULL,
                                 restore_timestamp |-> NULL]

ArchivedRow(loc) == [archive_location |-> loc, archive_timestamp |-> Now,
                     restore_timestamp |-> NULL]

\* A reset that forgets restore_timestamp
RestoredRow_noTimestamp == PresentRow

\* reset_*_s3_location_sql: archive columns null, restore_timestamp now()
RestoredRow == [archive_location |-> NULL, archive_timestamp |-> NULL,
                restore_timestamp |-> Now]

\* One statement applied to a database state db = [ok, report, analysis, objs]
ApplyStmt(db, st) ==
    IF ~db.ok THEN db
    ELSE IF st.op = "DROP" THEN
        IF db.objs[<<st.kind, st.id>>] = Absent
        THEN [db EXCEPT !.ok = FALSE]
        ELSE [db EXCEPT !.objs[<<st.kind, st.id>>] = Absent]
    ELSE IF st.op = "UPDATE" THEN
        IF st.kind = "report"
        THEN [db EXCEPT !.report[st.id] = ArchivedRow(st.loc)]
        ELSE [db EXCEPT !.analysis[st.id] = ArchivedRow(st.loc)]
    ELSE db

RECURSIVE ApplyAll(_, _)
ApplyAll(db, cmds) ==
    IF cmds = <<>> THEN db ELSE ApplyAll(ApplyStmt(db, Head(cmds)), Tail(cmds))

\* The database the script runs against
Database == [ok |-> TRUE, report |-> report, analysis |-> analysis, objs |-> objs]

\* psql -c "<cmds>": the script runs as one transaction, all or nothing
execDBCmds(cmds) == ApplyAll(Database, cmds)

\* A server that keeps what a script did before it was cut short
RolledBack_kept(db, part) == part

\* A script that ends before its COMMIT: the session closes and the server
\* rolls back what the statements after BEGIN did (part); db is what remains
RolledBack(db, part) == db

\* An extraction that finds no statement
getCleanCommands_none(body) == <<>>

\* pg_restore -Fc -c <fn> | awk '/^DROP/ ...': the drops of the dumped objects
getCleanCommands(body) == <<DropStmt(body.kind, body.id)>>

-----------------------------------------------------------------------------
(* Dependency resolver *)

\* A resolver that finds no dependent analysis
getDependentAnalyses_none(report_id) == {}

\* A resolver that forgets the filter "a.archive_location is null"
getDependentAnalyses_unfiltered(report_id) ==
    { a \in Analyses : <<a, report_id>> \in analysis_report }

\* A resolver that forgets the filter "j.report=?"
getDependentAnalyses_anyReport(report_id) ==
    { a \in Analyses : (\E r \in Reports : <<a, r>> \in analysis_report)
                        /\ analysis[a].archive_location = NULL }

\* analyses_by_report_sql: analyses linked to the report and not archived
getDependentAnalyses(report_id) ==
    { a \in Analyses : <<a, report_id>> \in analysis_report
                        /\ analysis[a].archive_location = NULL }

\* A resolver that finds no needed report
getNeededReports_none(analysis_id) == {}

\* A resolver that forgets the filter "r.archive_location is not null"
getNeededReports_unfiltered(analysis_id) ==
    { r \in Reports : <<analysis_id, r>> \in analysis_report }

\* A resolver that forgets the filter "j.analysis=?"
getNeededReports_anyAnalysis(analysis_id) ==
    { r \in Reports : (\E a \in Analyses : <<a, r>> \in analysis_report)
                       /\ report[r].archive_location # NULL }

\* reports_by_analysis_sql: reports the analysis is linked to and archived
getNeededReports(analysis_id) ==
    { r \in Reports : <<analysis_id, r>> \in analysis_report
                       /\ report[r].archive_location # NULL }

\* A validation that forgets the filter "archive_location is null"
reportPresent_anyRow(id) == id \in Reports

\* validate_report_present_sql returns a row
reportPresent(id) == id \in Reports /\ report[id].archive_location = NULL

\* validate_analysis_archived_sql / analysis_s3_location_sql return a row
analysisArchived(id) == id \in Analyses /\ analysis[id].archive_location # NULL

\* A lookup that forgets the filter "archive_location is not null"
reportArchived_anyRow(id) == id \in Reports

\* report_s3_location_sql returns a row
reportArchived(id) == id \in Reports /\ report[id].archive_location # NULL

\* The orders in which a query without ORDER BY can return a set of ids
Orders(S) == { s \in UNION { [1..n -> S] : n \in {Cardinality(S)} } :
                 \A i, j \in 1..Len(s) : i # j => s[i] # s[j] }

-----------------------------------------------------------------------------
(* Files, S3 objects and tasks *)

Put(f, k, v) == [x \in DOMAIN f \cup {k} |-> IF x = k THEN v ELSE f[x]]
Del(f, k) == [x \in DOMAIN f \ {k} |-> f[x]]

\* What pg_dump leaves behind when it is interrupted
Partial == [kind |-> "partial", id |-> 0]
IsDump(body) == body.kind \in {"report", "analysis"}

SmallestFree(S) ==
    CHOOSE n \in 1..(Cardinality(S) + 1) : n \notin S /\ \A m \in 1..(n - 1) : m \in S

\* tmp.tmpName: a path that names no existing file and that no call holds
tmpName == SmallestFree(DOMAIN files \cup { tasks[t].tmpFile : t \in DOMAIN tasks })

NoCall == [kind |-> "none", id |-> 0, data |-> Absent]

\* The stores as they are when a call is made
Snapshot == [report |-> report, analysis |-> analysis, objs |-> objs,
             s3 |-> s3, files |-> files]

\* The local variables of one call and the state of the promise it returned.
\* did: the collaborator calls the chain has made; request: the {Bucket, Key}
\* of its s3.getObject.
\* parent: 0 for a call made by the client, the task id of the cascading call
\* for a cascade child, -1 for work left in flight by a call that has settled.
NewTask(kind, id, parent, pc, cmds) ==
    [kind |-> kind, id |-> id, parent |-> parent, pc |-> pc,
     settled |-> "pending", err |-> "none",
     tmpFile |-> 0, s3Location |-> NULL, cleanCommands |-> cmds,
     deps |-> <<>>, did |-> {}, request |-> <<>>, unhandled |-> FALSE,
     pre |-> Snapshot]

\* A rejection after which the chain goes on with its next step
Reject_chainGoesOn(rec, e) ==
    [rec EXCEPT !.pc = IF @ = "restore" THEN "remove"
                       ELSE IF @ = "remove" THEN "reset" ELSE "done",
                !.settled = IF @ = "pending" THEN "rejected" ELSE @,
                !.err = IF rec.settled = "pending" THEN e ELSE @]

\* reject(err): a promise settles once; the chain ends
Reject(rec, e) ==
    [rec EXCEPT !.pc = "done",
                !.settled = IF @ = "pending" THEN "rejected" ELSE @,
                !.err = IF rec.settled = "pending" THEN e ELSE @]

\* A last .then that forgets to call resolve
Resolve_forgotten(rec) == [rec EXCEPT !.pc = "done"]

\* resolve(value)
Resolve(rec) ==
    [rec EXCEPT !.pc = "done",
                !.settled = IF @ = "pending" THEN "resolved" ELSE @]

Did(rec, what) == [rec EXCEPT !.did = @ \cup {what}]

Children(ts, p) == { c \in DOMAIN ts : ts[c].parent = p }

ChildOf(ts, p, id) == CHOOSE c \in Children(ts, p) : ts[c].id = id

\* ps.forEach(cmds => { cleanCommands += cmds })
RECURSIVE JoinCommands(_, _, _)
JoinCommands(ts, p, ids) ==
    IF ids = <<>> THEN <<>>
    ELSE ts[ChildOf(ts, p, Head(ids))].cleanCommands \o JoinCommands(ts, p, Tail(ids))

\* A continuation that drops the commands its children resolved with
Joined_noCommands(ts, p) == [ts[p] EXCEPT !.pc = "genTmp"]

\* The continuation of Promise.all(ps) in archiveReport and restoreAnalysis:
\* with the children all resolved the chain goes on to generateTmpFile
Joined(ts, p) ==
    [ts[p] EXCEPT !.pc = "genTmp",
                  !.cleanCommands = @ \o JoinCommands(ts, p, ts[p].deps)]

\* A combinator that resolves with the first child that resolves
PromiseAll_first(ts, c) ==
    LET p == ts[c].parent IN
    IF p <= 0 THEN ts
    ELSE IF ts[p].pc # "await" THEN ts
    ELSE IF ts[c].settled = "rejected" THEN [ts EXCEPT ![p] = Reject(@, ts[c].err)]
    ELSE IF ts[c].settled = "resolved" THEN [ts EXCEPT ![p] = Joined(ts, p)]
    ELSE ts

\* A combinator that waits for every child to settle and then goes on
PromiseAll_allSettled(ts, c) ==
    LET p == ts[c].parent IN
    IF p <= 0 THEN ts
    ELSE IF ts[p].pc # "await" THEN ts
    ELSE IF \A d \in Children(ts, p) : ts[d].settled # "pending"
         THEN [ts EXCEPT ![p] = Joined(ts, p)]
    ELSE ts

\* Promise.all: rejects with the first rejection, resolves when all resolved
PromiseAll(ts, c) ==
    LET p == ts[c].parent IN
    IF p <= 0 THEN ts
    ELSE IF ts[p].pc # "await" THEN ts
    ELSE IF ts[c].settled = "rejected" THEN [ts EXCEPT ![p] = Reject(@, ts[c].err)]
    ELSE IF \A d \in Children(ts, p) : ts[d].settled = "resolved"
         THEN [ts EXCEPT ![p] = Joined(ts, p)]
    ELSE ts

\* The task t becomes rec; its cascading call, if it waits, sees it settle
Update(t, rec) == tasks' = PromiseAll([tasks EXCEPT ![t] = rec], t)

\* ids.map(id => f(id)): one child call per id, each at its first step
RECURSIVE Spawn(_, _, _, _)
Spawn(ts, p, kind, ids) ==
    IF ids = <<>> THEN ts
    ELSE Spawn(Put(ts, SmallestFree(DOMAIN ts), NewTask(kind, Head(ids), p, "genTmp", <<>>)),
               p, kind, Tail(ids))

\* A collaborator call that can succeed succeeds or fails (ok); at most
\* MaxFaults such calls fail.  A call that cannot succeed just fails.
Outcome(can, ok) ==
    /\ ~ok => can /\ faults < MaxFaults
    /\ faults' = IF ok THEN faults ELSE faults + 1

At(t, kind, pc) == t \in DOMAIN tasks /\ tasks[t].kind = kind /\ tasks[t].pc = pc

-----------------------------------------------------------------------------
(* Initial state: everything present, nothing archived *)

Init ==
    /\ report = [r \in Reports |-> PresentRow]
    /\ analysis = [a \in Analyses |-> PresentRow]
    /\ analysis_report \in LinkChoices
    /\ objs = [e \in Entities |-> [kind |-> e[1], id |-> e[2]]]
    /\ s3 = <<>>
    /\ files = <<>>
    /\ tasks = <<>>
    /\ hist = <<NoCall, NoCall>>
    /\ calls = 0
    /\ mode = "waits"
    /\ faults = 0

-----------------------------------------------------------------------------
(* A client call.  A client that waits starts the next call when the       *)
(* previous one and every chain it started have run to completion; an      *)
(* eager client starts it as soon as the promise of the previous call has  *)
(* settled; a client that overlaps its calls starts it while the chains of *)
(* at most one other call are running.                                     *)

Settled == \A t \in DOMAIN tasks : tasks[t].parent = 0 => tasks[t].settled # "pending"

Quiescent == \A t \in DOMAIN tasks : tasks[t].pc = "done"

\* The call a running chain belongs to
CallOf(t) == IF tasks[t].parent = 0 THEN t ELSE tasks[t].parent

\* The chains that are running all belong to one call
OneCallRunning ==
    \A t, u \in { x \in DOMAIN tasks : tasks[x].pc # "done" } : CallOf(t) = CallOf(u)

Ready ==
    IF mode = "eager" THEN Settled
    ELSE IF mode = "overlaps" THEN OneCallRunning
    ELSE Quiescent

EntityKind(kind) ==
    IF kind \in {"archiveReport", "restoreReport"} THEN "report" ELSE "analysis"

\* What is remembered of a completed call: the call if it resolved, and the
\* objects its entity had when the call was made
Summary(rec) ==
    IF rec.settled = "resolved"
    THEN [kind |-> rec.kind, id |-> rec.id,
          data |-> rec.pre.objs[<<EntityKind(rec.kind), rec.id>>]]
    ELSE NoCall

\* A chain whose cascading call is still running
Awaited(t) ==
    tasks[t].parent > 0 /\ tasks[t].parent \in DOMAIN tasks
                        /\ tasks[tasks[t].parent].pc # "done"

\* What a new call finds: the calls still running with the chains they wait
\* for, and the chains a call that has ended left in flight, which no one
\* awaits any more (parent -1)
InFlight ==
    [t \in { u \in DOMAIN tasks : tasks[u].pc # "done" \/ Awaited(u) } |->
        IF tasks[t].parent = 0 \/ Awaited(t) THEN tasks[t]
        ELSE [tasks[t] EXCEPT !.parent = -1]]

Call(kind, id, pc, cmds) ==
    /\ Ready
    /\ calls < (IF mode = "overlaps" THEN MaxOverlapCalls ELSE MaxCalls)
    /\ calls' = calls + 1
    /\ tasks' = Put(InFlight, SmallestFree(DOMAIN InFlight), NewTask(kind, id, 0, pc, cmds))
    /\ hist' = IF \E t \in DOMAIN tasks : tasks[t].parent = 0
               THEN <<hist[2], Summary(tasks[CHOOSE t \in DOMAIN tasks : tasks[t].parent = 0])>>
               ELSE hist
    /\ UNCHANGED <<report, analysis, analysis_report, objs, s3, files, mode, faults>>

-----------------------------------------------------------------------------
(* Steps shared by the archive chains *)

\* The last .then of archiveAnalysis, run when the chain has settled:
\* if (!_.isNil(tmpFile)) fs.unlinkSync(tmpFile), which throws on a missing file
unlinkSync(f, rec) ==
    IF rec.tmpFile # 0 /\ rec.tmpFile \in DOMAIN f THEN Del(f, rec.tmpFile) ELSE f

unlinkSyncThrows(f, rec) == rec.tmpFile # 0 /\ rec.tmpFile \notin DOMAIN f

\* archiveAnalysis settles as rec with the files f; then its last .then runs
SettleAnalysis(t, rec, f) ==
    /\ files' = unlinkSync(f, rec)
    /\ Update(t, [rec EXCEPT !.unhandled = unlinkSyncThrows(f, rec)])

\* pg_dump -f <fn> -c -Fc -t <objects>: fails when no object matches
dumpOk(kind, id, ok) == ok /\ objs[<<kind, id>>] # Absent

\* s3.upload of a read stream on <fn>: fails when the file cannot be read
uploadOk(rec, ok) == ok /\ rec.tmpFile \in DOMAIN files

\* pg_restore -Fc -c <fn>: fails when <fn> is missing or not a complete dump
cleanOk(rec, ok) == ok /\ rec.tmpFile \in DOMAIN files /\ IsDump(files[rec.tmpFile])

\* fs.unlink(fn): fails when there is no such file
removeOk(rec, ok) == ok /\ rec.tmpFile \in DOMAIN files

-----------------------------------------------------------------------------
(* archiveAnalysis(id) *)

archiveAnalysis(id) == Call("archiveAnalysis", id, "genTmp", <<>>)

archiveAnalysis_generateTmpFile(t) ==
    /\ At(t, "archiveAnalysis", "genTmp")
    /\ \E ok \in BOOLEAN :
        /\ Outcome(TRUE, ok)
        /\ IF ok
           THEN /\ Update(t, [tasks[t] EXCEPT !.tmpFile = tmpName, !.pc = "dump"])
                /\ UNCHANGED files
           ELSE SettleAnalysis(t, Reject(tasks[t], "generateTmpFile"), files)
    /\ UNCHANGED <<report, analysis, analysis_report, objs, s3, hist, calls, mode>>

archiveAnalysis_dumpAnalysis(t) ==
    /\ At(t, "archiveAnalysis", "dump")
    /\ LET rec == Did(tasks[t], "dump") IN
       \E ok \in BOOLEAN :
        /\ Outcome(dumpOk("analysis", rec.id, TRUE), ok)
        /\ IF dumpOk("analysis", rec.id, ok)
           THEN /\ files' = Put(files, rec.tmpFile, objs[<<"analysis", rec.id>>])
                /\ Update(t, [rec EXCEPT !.pc = "upload"])
           ELSE \E left \in BOOLEAN :
                   SettleAnalysis(t, Reject(rec, "dump"),
                                  IF left THEN Put(files, rec.tmpFile, Partial) ELSE files)
    /\ UNCHANGED <<report, analysis, analysis_report, objs, s3, hist, calls, mode>>

archiveAnalysis_uploadAnalysisDump(t) ==
    /\ At(t, "archiveAnalysis", "upload")
    /\ LET rec == Did(tasks[t], "upload") IN
       \E ok \in BOOLEAN :
        /\ Outcome(uploadOk(rec, TRUE), ok)
        /\ IF uploadOk(rec, ok)
           THEN /\ s3' = Put(s3, <<s3_bucket, analysisKey(rec.id)>>, files[rec.tmpFile])
                /\ Update(t, [rec EXCEPT !.pc = "clean",
                                         !.s3Location = locator(s3_bucket, analysisKey(rec.id))])
                /\ UNCHANGED files
           ELSE /\ SettleAnalysis(t, Reject(rec, "upload"), files)
                /\ UNCHANGED s3
    /\ UNCHANGED <<report, analysis, analysis_report, objs, hist, calls, mode>>

archiveAnalysis_getCleanCommands(t) ==
    /\ At(t, "archiveAnalysis", "clean")
    /\ LET rec == Did(tasks[t], "clean") IN
       \E ok \in BOOLEAN :
        /\ Outcome(cleanOk(rec, TRUE), ok)
        /\ IF cleanOk(rec, ok)
           THEN /\ Update(t, [rec EXCEPT !.pc = "remove",
                                !.cleanCommands = getCleanCommands(files[rec.tmpFile])
                                    \o <<UpdateStmt("analysis", rec.id, rec.s3Location)>>])
                /\ UNCHANGED files
           ELSE SettleAnalysis(t, Reject(rec, "getCleanCommands"), files)
    /\ UNCHANGED <<report, analysis, analysis_report, objs, s3, hist, calls, mode>>

archiveAnalysis_removeFile(t) ==
    /\ At(t, "archiveAnalysis", "remove")
    /\ LET rec == Did(tasks[t], "remove") IN
       \E ok \in BOOLEAN :
        /\ Outcome(removeOk(rec, TRUE), ok)
        /\ IF removeOk(rec, ok)
           THEN SettleAnalysis(t, Resolve(rec), Del(files, rec.tmpFile))
           ELSE SettleAnalysis(t, Reject(rec, "removeFile"), files)
    /\ UNCHANGED <<report, analysis, analysis_report, objs, s3, hist, calls, mode>>

-----------------------------------------------------------------------------
(* archiveReport(id) *)

archiveReport(id) == Call("archiveReport", id, "validate", <<Begin>>)

\* db.one(validate_report_present_sql, id); any rejection is rethrown as
\* AlreadyArchivedOrDoesNotExistError
archiveReport_validate(t) ==
    /\ At(t, "archiveReport", "validate")
    /\ \E ok \in BOOLEAN :
        /\ Outcome(reportPresent(tasks[t].id), ok)
        /\ IF ok /\ reportPresent(tasks[t].id)
           THEN Update(t, [tasks[t] EXCEPT !.pc = "getDeps"])
           ELSE Update(t, Reject(tasks[t], "AlreadyArchivedOrDoesNotExistError"))
    /\ UNCHANGED <<report, analysis, analysis_report, objs, s3, files, hist, calls, mode>>

\* getDependentAnalyses(db, id), then archiveAnalyses(deps)
archiveReport_getDependentAnalyses(t) ==
    /\ At(t, "archiveReport", "getDeps")
    /\ LET rec == Did(tasks[t], "getDeps") IN
       \E ok \in BOOLEAN :
        /\ Outcome(TRUE, ok)
        /\ IF ok
           THEN \E deps \in Orders(getDependentAnalyses(rec.id)) :
                   tasks' = Spawn([tasks EXCEPT ![t] =
                                      [rec EXCEPT !.deps = deps,
                                                  !.pc = IF deps = <<>> THEN "genTmp" ELSE "await"]],
                                  t, "archiveAnalysis", deps)
           ELSE Update(t, Reject(rec, "AlreadyArchivedOrDoesNotExistError"))
    /\ UNCHANGED <<report, analysis, analysis_report, objs, s3, files, hist, calls, mode>>

archiveReport_generateTmpFile(t) ==
    /\ At(t, "archiveReport", "genTmp")
    /\ \E ok \in BOOLEAN :
        /\ Outcome(TRUE, ok)
        /\ IF ok
           THEN Update(t, [tasks[t] EXCEPT !.tmpFile = tmpName, !.pc = "dump"])
           ELSE Update(t, Reject(tasks[t], "generateTmpFile"))
    /\ UNCHANGED <<report, analysis, analysis_report, objs, s3, files, hist, calls, mode>>

archiveReport_dumpReport(t) ==
    /\ At(t, "archiveReport", "dump")
    /\ LET rec == Did(tasks[t], "dump") IN
       \E ok \in BOOLEAN :
        /\ Outcome(dumpOk("report", rec.id, TRUE), ok)
        /\ IF dumpOk("report", rec.id, ok)
           THEN /\ files' = Put(files, rec.tmpFile, objs[<<"report", rec.id>>])
                /\ Update(t, [rec EXCEPT !.pc = "upload"])
           ELSE /\ \E left \in BOOLEAN :
                      files' = IF left THEN Put(files, rec.tmpFile, Partial) ELSE files
                /\ Update(t, Reject(rec, "dump"))
    /\ UNCHANGED <<report, analysis, analysis_report, objs, s3, hist, calls, mode>>

archiveReport_uploadReportDump(t) ==
    /\ At(t, "archiveReport", "upload")
    /\ LET rec == Did(tasks[t], "upload") IN
       \E ok \in BOOLEAN :
        /\ Outcome(uploadOk(rec, TRUE), ok)
        /\ IF uploadOk(rec, ok)
           THEN /\ s3' = Put(s3, <<s3_bucket, reportKey(rec.id)>>, files[rec.tmpFile])
                /\ Update(t, [rec EXCEPT !.pc = "clean",
                                         !.s3Location = locator(s3_bucket, reportKey(rec.id))])
           ELSE /\ Update(t, Reject(rec, "upload"))
                /\ UNCHANGED s3
    /\ UNCHANGED <<report, analysis, analysis_report, objs, files, hist, calls, mode>>

archiveReport_getCleanCommands(t) ==
    /\ At(t, "archiveReport", "clean")
    /\ LET rec == Did(tasks[t], "clean") IN
       \E ok \in BOOLEAN :
        /\ Outcome(cleanOk(rec, TRUE), ok)
        /\ IF cleanOk(rec, ok)
           THEN Update(t, [rec EXCEPT !.pc = "remove",
                             !.cleanCommands = @ \o getCleanCommands(files[rec.tmpFile])
                                 \o <<UpdateStmt("report", rec.id, rec.s3Location), Commit>>])
           ELSE Update(t, Reject(rec, "getCleanCommands"))
    /\ UNCHANGED <<report, analysis, analysis_report, objs, s3, files, hist, calls, mode>>

archiveReport_removeFile(t) ==
    /\ At(t, "archiveReport", "remove")
    /\ LET rec == Did(tasks[t], "remove") IN
       \E ok \in BOOLEAN :
        /\ Outcome(removeOk(rec, TRUE), ok)
        /\ IF removeOk(rec, ok)
           THEN /\ files' = Del(files, rec.tmpFile)
                /\ Update(t, [rec EXCEPT !.pc = "commit"])
           ELSE /\ Update(t, Reject(rec, "removeFile"))
                /\ UNCHANGED files
    /\ UNCHANGED <<report, analysis, analysis_report, objs, s3, hist, calls, mode>>

archiveReport_execDBCmds(t) ==
    /\ At(t, "archiveReport", "commit")
    /\ LET rec == Did(tasks[t], "exec")
           db == execDBCmds(rec.cleanCommands) IN
       \E ok \in BOOLEAN :
        /\ Outcome(db.ok, ok)
        /\ IF ok /\ db.ok
           THEN /\ report' = db.report
                /\ analysis' = db.analysis
                /\ objs' = db.objs
                /\ Update(t, Resolve(rec))
           ELSE /\ \E k \in 1..Len(rec.cleanCommands) :
                      LET part == ApplyAll(Database, SubSeq(rec.cleanCommands, 1, k - 1))
                          after == RolledBack(Database, part) IN
                      /\ report' = after.report
                      /\ analysis' = after.analysis
                      /\ objs' = after.objs
                /\ Update(t, Reject(rec, "execDBCmds"))
    /\ UNCHANGED <<analysis_report, s3, files, hist, calls, mode>>

-----------------------------------------------------------------------------
(* The restore pipeline, the same in restoreReport and restoreAnalysis *)

Archived(kind, id) ==
    IF kind = "restoreReport" THEN reportArchived(id) ELSE analysisArchived(id)

ArchiveLocation(kind, id) ==
    IF kind = "restoreReport" THEN report[id].archive_location
    ELSE analysis[id].archive_location

\* s3.getObject({Bucket, Key}): fails when there is no such object
downloadOk(rec, ok) ==
    ok /\ <<bucketOf(rec.s3Location), keyOf(rec.s3Location)>> \in DOMAIN s3

\* pg_restore -c -Fc <fn> | psql: fails when <fn> is missing or not a complete dump
restoreOk(rec, ok) == ok /\ rec.tmpFile \in DOMAIN files /\ IsDump(files[rec.tmpFile])

restore_generateTmpFile(t, kind) ==
    /\ At(t, kind, "genTmp")
    /\ \E ok \in BOOLEAN :
        /\ Outcome(TRUE, ok)
        /\ IF ok
           THEN Update(t, [tasks[t] EXCEPT !.tmpFile = tmpName, !.pc = "getLoc"])
           ELSE Update(t, Reject(tasks[t], "generateTmpFile"))
    /\ UNCHANGED <<report, analysis, analysis_report, objs, s3, files, hist, calls, mode>>

\* get_s3_location(db, id, ps), then the split of the locator at its first '/':
\* a malformed locator rejects the promise and the chain goes on to download
restore_get_s3_location(t, kind) ==
    /\ At(t, kind, "getLoc")
    /\ \E ok \in BOOLEAN :
        /\ Outcome(Archived(kind, tasks[t].id), ok)
        /\ IF ok /\ Archived(kind, tasks[t].id)
           THEN LET s3loc == ArchiveLocation(kind, tasks[t].id)
                    rec == [tasks[t] EXCEPT !.s3Location = s3loc] IN
                Update(t, IF malformedLocator(s3loc)
                          THEN [Reject(rec, "locator") EXCEPT !.pc = "download"]
                          ELSE [rec EXCEPT !.pc = "download"])
           ELSE Update(t, Reject(tasks[t], "get_s3_location"))
    /\ UNCHANGED <<report, analysis, analysis_report, objs, s3, files, hist, calls, mode>>

restore_download(t, kind) ==
    /\ At(t, kind, "download")
    /\ LET s3loc == tasks[t].s3Location
           rec == [Did(tasks[t], "download") EXCEPT
                      !.request = <<bucketOf(s3loc), keyOf(s3loc)>>] IN
       \E ok \in BOOLEAN :
        /\ Outcome(downloadOk(rec, TRUE), ok)
        /\ IF downloadOk(rec, ok)
           THEN /\ files' = Put(files, rec.tmpFile,
                                s3[<<bucketOf(rec.s3Location), keyOf(rec.s3Location)>>])
                /\ Update(t, [rec EXCEPT !.pc = "restore"])
           ELSE /\ \E left \in BOOLEAN :
                      files' = IF left /\ downloadOk(rec, TRUE)
                               THEN Put(files, rec.tmpFile, Partial) ELSE files
                /\ Update(t, Reject(rec, "download"))
    /\ UNCHANGED <<report, analysis, analysis_report, objs, s3, hist, calls, mode>>

restore_restore(t, kind) ==
    /\ At(t, kind, "restore")
    /\ LET rec == Did(tasks[t], "restore") IN
       \E ok \in BOOLEAN :
        /\ Outcome(restoreOk(rec, TRUE), ok)
        /\ IF restoreOk(rec, ok)
           THEN LET body == files[rec.tmpFile] IN
                /\ objs' = [objs EXCEPT ![<<body.kind, body.id>>] = body]
                /\ Update(t, [rec EXCEPT !.pc = "remove"])
           ELSE /\ Update(t, Reject(rec, "restore"))
                /\ UNCHANGED objs
    /\ UNCHANGED <<report, analysis, analysis_report, s3, files, hist, calls, mode>>

restore_removeFile(t, kind) ==
    /\ At(t, kind, "remove")
    /\ LET rec == Did(tasks[t], "remove") IN
       \E ok \in BOOLEAN :
        /\ Outcome(removeOk(rec, TRUE), ok)
        /\ IF removeOk(rec, ok)
           THEN /\ files' = Del(files, rec.tmpFile)
                /\ Update(t, [rec EXCEPT !.pc = "reset"])
           ELSE /\ Update(t, Reject(rec, "removeFile"))
                /\ UNCHANGED files
    /\ UNCHANGED <<report, analysis, analysis_report, objs, s3, hist, calls, mode>>

\* db.none(reset_*_s3_location_sql, [null, null, "now()", id])
restore_reset(t, kind) ==
    /\ At(t, kind, "reset")
    /\ LET rec == Did(tasks[t], "reset") IN
       \E ok \in BOOLEAN :
        /\ Outcome(TRUE, ok)
        /\ IF ok
           THEN /\ IF kind = "restoreReport"
                   THEN /\ report' = [report EXCEPT ![rec.id] = RestoredRow]
                        /\ UNCHANGED analysis
                   ELSE /\ analysis' = [analysis EXCEPT ![rec.id] = RestoredRow]
                        /\ UNCHANGED report
                /\ Update(t, Resolve(rec))
           ELSE /\ Update(t, Reject(rec, "db.none"))
                /\ UNCHANGED <<report, analysis>>
    /\ UNCHANGED <<analysis_report, objs, s3, files, hist, calls, mode>>

-----------------------------------------------------------------------------
(* restoreReport(id) *)

restoreReport(id) == Call("restoreReport", id, "genTmp", <<>>)

restoreReport_generateTmpFile(t) == restore_generateTmpFile(t, "restoreReport")
restoreReport_get_report_s3_location(t) == restore_get_s3_location(t, "restoreReport")
restoreReport_download(t) == restore_download(t, "restoreReport")
restoreReport_restore(t) == restore_restore(t, "restoreReport")
restoreReport_removeFile(t) == restore_removeFile(t, "restoreReport")
restoreReport_reset(t) == restore_reset(t, "restoreReport")

-----------------------------------------------------------------------------
(* restoreAnalysis(id) *)

restoreAnalysis(id) == Call("restoreAnalysis", id, "validate", <<>>)

\* db.one(validate_analysis_archived_sql, id); any rejection is rethrown as
\* Error("Analysis <id> either does not exist or is not archived")
restoreAnalysis_validate(t) ==
    /\ At(t, "restoreAnalysis", "validate")
    /\ \E ok \in BOOLEAN :
        /\ Outcome(analysisArchived(tasks[t].id), ok)
        /\ IF ok /\ analysisArchived(tasks[t].id)
           THEN Update(t, [tasks[t] EXCEPT !.pc = "getDeps"])
           ELSE Update(t, Reject(tasks[t], "NotArchivedOrDoesNotExist"))
    /\ UNCHANGED <<report, analysis, analysis_report, objs, s3, files, hist, calls, mode>>

\* getNeededReports(db, id), then restoreReports(deps)
restoreAnalysis_getNeededReports(t) ==
    /\ At(t, "restoreAnalysis", "getDeps")
    /\ \E ok \in BOOLEAN :
        /\ Outcome(TRUE, ok)
        /\ IF ok
           THEN \E deps \in Orders(getNeededReports(tasks[t].id)) :
                   tasks' = Spawn([tasks EXCEPT ![t] =
                                      [@ EXCEPT !.deps = deps,
                                                !.pc = IF deps = <<>> THEN "genTmp" ELSE "await"]],
                                  t, "restoreReport", deps)
           ELSE Update(t, Reject(tasks[t], "NotArchivedOrDoesNotExist"))
    /\ UNCHANGED <<report, analysis, analysis_report, objs, s3, files, hist, calls, mode>>

restoreAnalysis_generateTmpFile(t) == restore_generateTmpFile(t, "restoreAnalysis")
restoreAnalysis_get_analysis_s3_location(t) == restore_get_s3_location(t, "restoreAnalysis")
restoreAnalysis_download(t) == restore_download(t, "restoreAnalysis")
restoreAnalysis_restore(t) == restore_restore(t, "restoreAnalysis")
restoreAnalysis_removeFile(t) == restore_removeFile(t, "restoreAnalysis")
restoreAnalysis_reset(t) == restore_reset(t, "restoreAnalysis")

-----------------------------------------------------------------------------
(* The system: calls made one at a time, their chains interleaved *)

TaskIds == DOMAIN tasks

Next ==
    \/ \E id \in ReportIds : archiveReport(id)
    \/ \E id \in Analyses : archiveAnalysis(id)
    \/ \E id \in ReportIds : restoreReport(id)
    \/ \E id \in AnalysisIds : restoreAnalysis(id)
    \/ \E t \in TaskIds : archiveAnalysis_generateTmpFile(t)
    \/ \E t \in TaskIds : archiveAnalysis_dumpAnalysis(t)
    \/ \E t \in TaskIds : archiveAnalysis_uploadAnalysisDump(t)
    \/ \E t \in TaskIds : archiveAnalysis_getCleanCommands(t)
    \/ \E t \in TaskIds : archiveAnalysis_removeFile(t)
    \/ \E t \in TaskIds : archiveReport_validate(t)
    \/ \E t \in TaskIds : archiveReport_getDependentAnalyses(t)
    \/ \E t \in TaskIds : archiveReport_generateTmpFile(t)
    \/ \E t \in TaskIds : archiveReport_dumpReport(t)
    \/ \E t \in TaskIds : archiveReport_uploadReportDump(t)
    \/ \E t \in TaskIds : archiveReport_getCleanCommands(t)
    \/ \E t \in TaskIds : archiveReport_removeFile(t)
    \/ \E t \in TaskIds : archiveReport_execDBCmds(t)
    \/ \E t \in TaskIds : restoreReport_generateTmpFile(t)
    \/ \E t \in TaskIds : restoreReport_get_report_s3_location(t)
    \/ \E t \in TaskIds : restoreReport_download(t)
    \/ \E t \in TaskIds : restoreReport_restore(t)
    \/ \E t \in TaskIds : restoreReport_removeFile(t)
    \/ \E t \in TaskIds : restoreReport_reset(t)
    \/ \E t \in TaskIds : restoreAnalysis_validate(t)
    \/ \E t \in TaskIds : restoreAnalysis_getNeededReports(t)
    \/ \E t \in TaskIds : restoreAnalysis_generateTmpFile(t)
    \/ \E t \in TaskIds : restoreAnalysis_get_analysis_s3_location(t)
    \/ \E t \in TaskIds : restoreAnalysis_download(t)
    \/ \E t \in TaskIds : restoreAnalysis_restore(t)
    \/ \E t \in TaskIds : restoreAnalysis_removeFile(t)
    \/ \E t \in TaskIds : restoreAnalysis_reset(t)

Spec == Init /\ [][Next]_vars

\* The return of a collaborator call to the chain that waits for it: one step
\* of a call that has been made
Step ==
    \/ \E t \in TaskIds : archiveAnalysis_generateTmpFile(t)
    \/ \E t \in TaskIds : archiveAnalysis_dumpAnalysis(t)
    \/ \E t \in TaskIds : archiveAnalysis_uploadAnalysisDump(t)
    \/ \E t \in TaskIds : archiveAnalysis_getCleanCommands(t)
    \/ \E t \in TaskIds : archiveAnalysis_removeFile(t)
    \/ \E t \in TaskIds : archiveReport_validate(t)
    \/ \E t \in TaskIds : archiveReport_getDependentAnalyses(t)
    \/ \E t \in TaskIds : archiveReport_generateTmpFile(t)
    \/ \E t \in TaskIds : archiveReport_dumpReport(t)
    \/ \E t \in TaskIds : archiveReport_uploadReportDump(t)
    \/ \E t \in TaskIds : archiveReport_getCleanCommands(t)
    \/ \E t \in TaskIds : archiveReport_removeFile(t)
    \/ \E t \in TaskIds : archiveReport_execDBCmds(t)
    \/ \E t \in TaskIds : restoreReport_generateTmpFile(t)
    \/ \E t \in TaskIds : restoreReport_get_report_s3_location(t)
    \/ \E t \in TaskIds : restoreReport_download(t)
    \/ \E t \in TaskIds : restoreReport_restore(t)
    \/ \E t \in TaskIds : restoreReport_removeFile(t)
    \/ \E t \in TaskIds : restoreReport_reset(t)
    \/ \E t \in TaskIds : restoreAnalysis_validate(t)
    \/ \E t \in TaskIds : restoreAnalysis_getNeededReports(t)
    \/ \E t \in TaskIds : restoreAnalysis_generateTmpFile(t)
    \/ \E t \in TaskIds : restoreAnalysis_get_analysis_s3_location(t)
    \/ \E t \in TaskIds : restoreAnalysis_download(t)
    \/ \E t \in TaskIds : restoreAnalysis_restore(t)
    \/ \E t \in TaskIds : restoreAnalysis_removeFile(t)
    \/ \E t \in TaskIds : restoreAnalysis_reset(t)

\* The same system with the eager client
InitEager ==
    /\ report = [r \in Reports |-> PresentRow]
    /\ analysis = [a \in Analyses |-> PresentRow]
    /\ analysis_report \in LinkChoices
    /\ objs = [e \in Entities |-> [kind |-> e[1], id |-> e[2]]]
    /\ s3 = <<>>
    /\ files = <<>>
    /\ tasks = <<>>
    /\ hist = <<NoCall, NoCall>>
    /\ calls = 0
    /\ mode = "eager"
    /\ faults = 0

SpecEager == InitEager /\ [][Next]_vars

\* The same system with the client that overlaps its calls, on the tables of
\* the test (analysis 4 depends on reports 74 and 75), and with collaborators
\* that fail only when they cannot succeed (no failure is left to inject)
InitOverlaps ==
    /\ report = [r \in Reports |-> PresentRow]
    /\ analysis = [a \in Analyses |-> PresentRow]
    /\ analysis_report = { <<4, 74>>, <<4, 75>> }
    /\ objs = [e \in Entities |-> [kind |-> e[1], id |-> e[2]]]
    /\ s3 = <<>>
    /\ files = <<>>
    /\ tasks = <<>>
    /\ hist = <<NoCall, NoCall>>
    /\ calls = 0
    /\ mode = "overlaps"
    /\ faults = MaxFaults

SpecOverlaps == InitOverlaps /\ [][Next]_vars

\* Locators found in archive_location: "bucketname/path/to/key", one with
\* no separator, one that starts with the separator, one that ends with its
\* first separator
StoredLocators ==
    { <<"bucketname", "/", "path", "/", "to", "/", "key">>,
      <<"bucketname">>,
      <<"/", "path">>,
      <<"bucketname", "/">> }

\* The same system started on a database in which one entity (report 75,
\* which no analysis depends on, or analysis 4) was archived earlier, its row
\* holding one of the locators above; the bucket "bucketname" holds the dump
\* under the key "path/to/key"
InitStored ==
    \E e \in { <<"report", 75>>, <<"analysis", 4>> } : \E loc \in StoredLocators :
        /\ report = [r \in Reports |->
                        IF e = <<"report", r>> THEN ArchivedRow(loc) ELSE PresentRow]
        /\ analysis = [a \in Analyses |->
                          IF e = <<"analysis", a>> THEN ArchivedRow(loc) ELSE PresentRow]
        /\ analysis_report = { <<4, 74>>, <<5, 74>> }
        /\ objs = [x \in Entities |->
                      IF x = e THEN Absent ELSE [kind |-> x[1], id |-> x[2]]]
        /\ s3 = Put(<<>>, << <<"bucketname">>, <<"path", "/", "to", "/", "key">> >>,
                    [kind |-> e[1], id |-> e[2]])
        /\ files = <<>>
        /\ tasks = <<>>
        /\ hist = <<NoCall, NoCall>>
        /\ calls = 0
        /\ mode = "waits"
        /\ faults = 0

SpecStored == InitStored /\ [][Next]_vars

\* The same system where every collaborator call returns in the end, with
\* success or with failure: a chain that can take a step takes it
SpecLive == InitStored /\ [][Next]_vars /\ WF_vars(Step)

\* The client that overlaps its calls, on the tables of the test after
\* archiveReport(74) has resolved: report 74 and analysis 4, which depends on
\* it, are archived under the locators archiveReport wrote, report 75 is present
InitRace ==
    /\ report = [r \in Reports |->
                    IF r = 74 THEN ArchivedRow(locator(s3_bucket, reportKey(74)))
                    ELSE PresentRow]
    /\ analysis = [a \in Analyses |->
                      IF a = 4 THEN ArchivedRow(locator(s3_bucket, analysisKey(4)))
                      ELSE PresentRow]
    /\ analysis_report = { <<4, 74>>, <<4, 75>> }
    /\ objs = [e \in Entities |->
                  IF e \in { <<"report", 74>>, <<"analysis", 4>> } THEN Absent
                  ELSE [kind |-> e[1], id |-> e[2]]]
    /\ s3 = Put(Put(<<>>, <<s3_bucket, reportKey(74)>>, [kind |-> "report", id |-> 74]),
                <<s3_bucket, analysisKey(4)>>, [kind |-> "analysis", id |-> 4])
    /\ files = <<>>
    /\ tasks = <<>>
    /\ hist = <<NoCall, NoCall>>
    /\ calls = 0
    /\ mode = "overlaps"
    /\ faults = MaxFaults

SpecRace == InitRace /\ [][Next]_vars

-----------------------------------------------------------------------------
(* Vocabulary of the properties *)

IsArchived(row) == row.archive_location # NULL
IsPresent(row) == row.archive_location = NULL
Linked(a, r) == <<a, r>> \in analysis_report
ReportsOf(a) == { r \in Reports : Linked(a, r) }
AnalysesOf(r) == { a \in Analyses : Linked(a, r) }
Data(kind, id) == [kind |-> kind, id |-> id]

\* The calls made by the client that are still known
ClientCalls(kind) == { t \in DOMAIN tasks : tasks[t].parent = 0 /\ tasks[t].kind = kind }

Contains(cmds, st) == \E i \in 1..Len(cmds) : cmds[i] = st

TmpFileExists(rec) == rec.tmpFile # 0 /\ rec.tmpFile \in DOMAIN files

-----------------------------------------------------------------------------
(* C1: after any sequence of archiveReport, restoreReport and              *)
(* restoreAnalysis calls run one at a time to completion, each of which    *)
(* may fail at any stage, no report is marked archived while an analysis   *)
(* linked to it is marked present.  It holds in the states inside a call   *)
(* as well.                                                                *)

C1_NoArchivedReportUnderPresentAnalysis ==
    \A a \in Analyses : \A r \in Reports :
        Linked(a, r) /\ IsArchived(report[r]) => IsArchived(analysis[a])

\* A report and an analysis that depends on it are archived, another call has
\* failed since, and nothing is in flight
C1_Witness ==
    /\ Quiescent
    /\ faults > 0
    /\ calls > 1
    /\ \E a \in Analyses : \E r \in Reports :
          Linked(a, r) /\ IsArchived(report[r]) /\ IsArchived(analysis[a])

-----------------------------------------------------------------------------
(* C2: a successful archiveReport(R) leaves R and every analysis that      *)
(* depended on R and was present when the call was made (in particular an  *)
(* analysis that references only R) marked archived, and the statements    *)
(* the archive of each such analysis resolved with are part of the one     *)
(* BEGIN ... COMMIT script that archiveReport(R) executed.                 *)

C2_CascadeOnArchive ==
    \A t \in ClientCalls("archiveReport") :
        tasks[t].settled = "resolved" =>
            /\ IsArchived(report[tasks[t].id])
            /\ "exec" \in tasks[t].did
            /\ Head(tasks[t].cleanCommands) = Begin
            /\ tasks[t].cleanCommands[Len(tasks[t].cleanCommands)] = Commit
            /\ \A a \in AnalysesOf(tasks[t].id) :
                  IsPresent(tasks[t].pre.analysis[a]) =>
                     /\ IsArchived(analysis[a])
                     /\ \E c \in Children(tasks, t) :
                           /\ tasks[c].id = a
                           /\ tasks[c].settled = "resolved"
                           /\ analysis[a].archive_location = tasks[c].s3Location
                           /\ Contains(tasks[c].cleanCommands, DropStmt("analysis", a))
                           /\ \A i \in 1..Len(tasks[c].cleanCommands) :
                                 Contains(tasks[t].cleanCommands, tasks[c].cleanCommands[i])

\* archiveReport(R) has resolved and an analysis that references only R was
\* present when it was called
C2_Witness ==
    \E t \in ClientCalls("archiveReport") :
        /\ tasks[t].settled = "resolved"
        /\ \E a \in AnalysesOf(tasks[t].id) :
              /\ ReportsOf(a) = {tasks[t].id}
              /\ IsPresent(tasks[t].pre.analysis[a])
              /\ IsPresent(tasks[t].pre.report[tasks[t].id])

-----------------------------------------------------------------------------
(* C3: inside archiveReport(R), when the dump of R's own objects starts,   *)
(* every dependent analysis the resolver returned has been dumped and      *)
(* uploaded and its archive has resolved.  (Siblings are not ordered:      *)
(* C3_Sibling4First and C3_Sibling5First are both reachable.)              *)

DumpStarted(rec) ==
    rec.pc \in {"dump", "upload", "clean", "remove", "commit"} \/ "dump" \in rec.did

C3_AnalysesArchivedBeforeReportDump ==
    \A t \in DOMAIN tasks :
        tasks[t].kind = "archiveReport" /\ DumpStarted(tasks[t]) =>
            \A i \in 1..Len(tasks[t].deps) :
                \E c \in Children(tasks, t) :
                    /\ tasks[c].id = tasks[t].deps[i]
                    /\ tasks[c].kind = "archiveAnalysis"
                    /\ {"dump", "upload"} \subseteq tasks[c].did
                    /\ tasks[c].s3Location # NULL
                    /\ tasks[c].settled = "resolved"

\* The dump of a report with two dependent analyses is running
C3_Witness ==
    \E t \in DOMAIN tasks :
        /\ tasks[t].kind = "archiveReport"
        /\ tasks[t].pc = "dump"
        /\ Len(tasks[t].deps) = 2

\* One sibling has uploaded its dump while the other has not started its own
SiblingFirst(first, second) ==
    \E c, d \in DOMAIN tasks :
        /\ tasks[c].parent = tasks[d].parent /\ tasks[c].parent > 0
        /\ tasks[c].kind = "archiveAnalysis" /\ tasks[d].kind = "archiveAnalysis"
        /\ tasks[c].id = first /\ tasks[d].id = second
        /\ tasks[c].s3Location # NULL
        /\ tasks[d].pc \in {"genTmp", "dump"}

C3_Sibling4First == SiblingFirst(4, 5)
C3_Sibling5First == SiblingFirst(5, 4)

-----------------------------------------------------------------------------
(* C4: inside restoreAnalysis(A), every report A references that was       *)
(* archived when the call was made is marked present, its own restore      *)
(* having resolved after its row update, before A's own pipeline (and so   *)
(* the download of A's dump) begins; when restoreAnalysis(A) has resolved, *)
(* A and every report it references are marked present.                    *)

OwnPipelineStarted(rec) ==
    rec.pc \in {"genTmp", "getLoc", "download", "restore", "remove", "reset"}
    \/ rec.did # {}

C4_ReportsRestoredBeforeAnalysis ==
    \A t \in ClientCalls("restoreAnalysis") :
        /\ OwnPipelineStarted(tasks[t]) =>
              \A r \in ReportsOf(tasks[t].id) :
                  IsArchived(tasks[t].pre.report[r]) =>
                     /\ IsPresent(report[r])
                     /\ \E c \in Children(tasks, t) :
                           /\ tasks[c].id = r
                           /\ tasks[c].kind = "restoreReport"
                           /\ tasks[c].settled = "resolved"
                           /\ "reset" \in tasks[c].did
        /\ tasks[t].settled = "resolved" =>
              /\ IsPresent(analysis[tasks[t].id])
              /\ \A r \in ReportsOf(tasks[t].id) : IsPresent(report[r])

\* restoreAnalysis(A) has resolved and a report A references was archived
\* when it was called
C4_Witness ==
    \E t \in ClientCalls("restoreAnalysis") :
        /\ tasks[t].settled = "resolved"
        /\ \E r \in ReportsOf(tasks[t].id) : IsArchived(tasks[t].pre.report[r])

-----------------------------------------------------------------------------
(* C5: archiveReport(R) called right after an archiveReport(R) that        *)
(* resolved rejects with AlreadyArchivedOrDoesNotExistError at its         *)
(* validating read and has no effect: it starts no archive of an analysis, *)
(* calls neither pg_dump nor S3 nor psql, and leaves the tables, the       *)
(* objects, the bucket and the files as they were.                         *)

C5_SecondArchiveRejected ==
    \A t \in ClientCalls("archiveReport") :
        hist[2].kind = "archiveReport" /\ hist[2].id = tasks[t].id =>
            /\ tasks[t].pc \in {"validate", "done"}
            /\ tasks[t].pc = "done" =>
                  /\ tasks[t].settled = "rejected"
                  /\ tasks[t].err = "AlreadyArchivedOrDoesNotExistError"
            /\ tasks[t].did = {}
            /\ Children(tasks, t) = {}
            /\ Snapshot = tasks[t].pre

\* The second of two archiveReport(R) calls in a row has settled
C5_Witness ==
    \E t \in ClientCalls("archiveReport") :
        /\ hist[2].kind = "archiveReport"
        /\ hist[2].id = tasks[t].id
        /\ tasks[t].pc = "done"

-----------------------------------------------------------------------------
(* C6: a restoreReport(R) that resolves right after an archiveReport(R)    *)
(* that resolved leaves R's objects present with the content they had      *)
(* when the archive was called, archive_location and archive_timestamp     *)
(* null and restore_timestamp set.  It holds whether or not an analysis    *)
(* depends on R.                                                           *)

C6_RoundTrip ==
    \A t \in ClientCalls("restoreReport") :
        /\ hist[2].kind = "archiveReport"
        /\ hist[2].id = tasks[t].id
        /\ tasks[t].settled = "resolved"
        => /\ objs[<<"report", tasks[t].id>>] # Absent
           /\ objs[<<"report", tasks[t].id>>] = hist[2].data
           /\ report[tasks[t].id].archive_location = NULL
           /\ report[tasks[t].id].archive_timestamp = NULL
           /\ report[tasks[t].id].restore_timestamp # NULL

\* The round trip of a report no analysis depends on has completed
C6_Witness ==
    \E t \in ClientCalls("restoreReport") :
        /\ hist[2].kind = "archiveReport"
        /\ hist[2].id = tasks[t].id
        /\ AnalysesOf(tasks[t].id) = {}
        /\ tasks[t].settled = "resolved"

-----------------------------------------------------------------------------
(* C7: as long as no collaborator call fails, archiveReport of a present   *)
(* report and restoreAnalysis of an archived analysis resolve; and when    *)
(* restoreAnalysis(A) resolves after archiveReport(R1) and                 *)
(* archiveReport(R2) resolved, R1 and R2 being the reports A references,   *)
(* then A, R1 and R2 are marked present and have their objects, the        *)
(* reports with the content they had before they were archived.            *)

C7_ArchiveBothThenRestoreAnalysis ==
    /\ \A t \in ClientCalls("archiveReport") :
          /\ faults = 0
          /\ tasks[t].id \in Reports
          /\ IsPresent(tasks[t].pre.report[tasks[t].id])
          /\ tasks[t].pc = "done"
          => tasks[t].settled = "resolved"
    /\ \A t \in ClientCalls("restoreAnalysis") :
          /\ faults = 0
          /\ tasks[t].id \in Analyses
          /\ IsArchived(tasks[t].pre.analysis[tasks[t].id])
          /\ tasks[t].pc = "done"
          => tasks[t].settled = "resolved"
    /\ \A t \in ClientCalls("restoreAnalysis") :
          /\ hist[1].kind = "archiveReport"
          /\ hist[2].kind = "archiveReport"
          /\ hist[1].id # hist[2].id
          /\ ReportsOf(tasks[t].id) = {hist[1].id, hist[2].id}
          /\ tasks[t].settled = "resolved"
          => /\ IsPresent(analysis[tasks[t].id])
             /\ objs[<<"analysis", tasks[t].id>>] = Data("analysis", tasks[t].id)
             /\ \A i \in {1, 2} :
                   /\ IsPresent(report[hist[i].id])
                   /\ objs[<<"report", hist[i].id>>] # Absent
                   /\ objs[<<"report", hist[i].id>>] = hist[i].data

\* archiveReport(74), archiveReport(75), restoreAnalysis(4) have all resolved
C7_Witness ==
    \E t \in ClientCalls("restoreAnalysis") :
        /\ hist[1] = [kind |-> "archiveReport", id |-> 74, data |-> Data("report", 74)]
        /\ hist[2] = [kind |-> "archiveReport", id |-> 75, data |-> Data("report", 75)]
        /\ tasks[t].id = 4
        /\ ReportsOf(4) = {74, 75}
        /\ tasks[t].settled = "resolved"
        /\ faults = 0

-----------------------------------------------------------------------------
(* C8: restoreAnalysis(A) called when every report A references is present *)
(* gets the empty set from the resolver and restores no report: it starts  *)
(* no restoreReport, and the report table and the objects of the reports   *)
(* stay as they were.                                                      *)

C8_NoCascadeWhenReportsPresent ==
    \A t \in ClientCalls("restoreAnalysis") :
        (\A r \in ReportsOf(tasks[t].id) : IsPresent(tasks[t].pre.report[r])) =>
            /\ tasks[t].deps = <<>>
            /\ Children(tasks, t) = {}
            /\ \A c \in DOMAIN tasks : tasks[c].kind # "restoreReport"
            /\ report = tasks[t].pre.report
            /\ \A r \in Reports : objs[<<"report", r>>] = tasks[t].pre.objs[<<"report", r>>]

\* restoreAnalysis(A) has resolved, the reports of A being present at the call
C8_Witness ==
    \E t \in ClientCalls("restoreAnalysis") :
        /\ ReportsOf(tasks[t].id) # {}
        /\ \A r \in ReportsOf(tasks[t].id) : IsPresent(tasks[t].pre.report[r])
        /\ tasks[t].settled = "resolved"
        /\ IsPresent(analysis[tasks[t].id])

-----------------------------------------------------------------------------
(* C9: archiveReport does nothing for an analysis that is already archived *)
(* when it is called: the analysis is not among the dependents found, no   *)
(* archive of it is started, the script has no statement for it, and its   *)
(* row and its S3 object stay as they were.  When every analysis linked to *)
(* the report is already archived, the call archives the report alone.     *)

C9_ArchivedAnalysisNotArchivedAgain ==
    \A t \in ClientCalls("archiveReport") :
        /\ \A a \in Analyses :
              IsArchived(tasks[t].pre.analysis[a]) =>
                 /\ \A i \in 1..Len(tasks[t].deps) : tasks[t].deps[i] # a
                 /\ \A c \in Children(tasks, t) : tasks[c].id # a
                 /\ \A i \in 1..Len(tasks[t].cleanCommands) :
                       ~(tasks[t].cleanCommands[i].kind = "analysis"
                         /\ tasks[t].cleanCommands[i].id = a)
                 /\ analysis[a] = tasks[t].pre.analysis[a]
                 /\ <<s3_bucket, analysisKey(a)>> \in DOMAIN tasks[t].pre.s3
                 /\ <<s3_bucket, analysisKey(a)>> \in DOMAIN s3
                 /\ s3[<<s3_bucket, analysisKey(a)>>]
                       = tasks[t].pre.s3[<<s3_bucket, analysisKey(a)>>]
        /\ (\A a \in AnalysesOf(tasks[t].id) : IsArchived(tasks[t].pre.analysis[a])) =>
              /\ DOMAIN tasks = {t}
              /\ analysis = tasks[t].pre.analysis
              /\ tasks[t].settled = "resolved" =>
                    tasks[t].cleanCommands =
                        <<Begin, DropStmt("report", tasks[t].id),
                          UpdateStmt("report", tasks[t].id, tasks[t].s3Location), Commit>>

\* archiveReport(R2) has resolved right after archiveReport(R1), which had
\* archived an analysis that references both
C9_Witness ==
    \E t \in ClientCalls("archiveReport") :
        /\ hist[2].kind = "archiveReport"
        /\ hist[2].id # tasks[t].id
        /\ \E a \in Analyses :
              /\ {hist[2].id, tasks[t].id} \subseteq ReportsOf(a)
              /\ IsArchived(tasks[t].pre.analysis[a])
        /\ tasks[t].deps = <<>>
        /\ tasks[t].settled = "resolved"

-----------------------------------------------------------------------------
(* C10: once archiveReport has settled, resolved or rejected, the          *)
(* temporary file it acquired does not exist.                              *)

C10_TmpFileGoneWhenArchiveReportSettled ==
    \A t \in ClientCalls("archiveReport") :
        tasks[t].settled # "pending" => ~TmpFileExists(tasks[t])

-----------------------------------------------------------------------------
(* C11: once restoreReport or restoreAnalysis has settled, whichever step  *)
(* failed (the download, the restore of the dump, the row update), the     *)
(* temporary file the call acquired does not exist.                        *)

C11_TmpFileGoneWhenRestoreSettled ==
    \A t \in ClientCalls("restoreReport") \cup ClientCalls("restoreAnalysis") :
        tasks[t].settled # "pending" => ~TmpFileExists(tasks[t])

-----------------------------------------------------------------------------
(* C12: a second removal of a temporary file that is already gone raises   *)
(* nothing: the last step of archiveAnalysis never throws, neither after   *)
(* removeFile has removed the file nor when pg_dump never created it.      *)

C12_TrailingCleanupNeverRaises ==
    \A t \in DOMAIN tasks :
        tasks[t].kind = "archiveAnalysis" => ~tasks[t].unhandled

-----------------------------------------------------------------------------
(* C13: a restore splits the stored locator at its first separator: the    *)
(* bucket is what precedes the first "/", the key is all that follows it,  *)
(* and s3.getObject is called with exactly that bucket and key.            *)
(* "bucketname/path/to/key" gives bucket "bucketname", key "path/to/key".  *)

Restores == { t \in DOMAIN tasks : tasks[t].kind \in {"restoreReport", "restoreAnalysis"} }

FirstSeparator(s, i) ==
    i \in 1..Len(s) /\ s[i] = "/" /\ \A j \in 1..(i - 1) : s[j] # "/"

C13_LocatorSplitAtFirstSeparator ==
    \A t \in Restores :
        "download" \in tasks[t].did =>
            LET s == tasks[t].s3Location IN
            /\ \A i \in 2..(Len(s) - 1) :
                  FirstSeparator(s, i) =>
                      tasks[t].request = <<SubSeq(s, 1, i - 1), SubSeq(s, i + 1, Len(s))>>
            /\ s = <<"bucketname", "/", "path", "/", "to", "/", "key">> =>
                  tasks[t].request = << <<"bucketname">>, <<"path", "/", "to", "/", "key">> >>

\* A restore from the locator "bucketname/path/to/key" has resolved
C13_Witness ==
    \E t \in Restores :
        /\ tasks[t].s3Location = <<"bucketname", "/", "path", "/", "to", "/", "key">>
        /\ "download" \in tasks[t].did
        /\ tasks[t].settled = "resolved"

-----------------------------------------------------------------------------
(* C14: restoreReport and restoreAnalysis reject with the locator-format   *)
(* error when the archive_location they read has no "/", starts with "/"   *)
(* or has its first "/" as its last character.                             *)

NoSeparator(s) == \A i \in 1..Len(s) : s[i] # "/"

C14_MalformedLocatorRejected ==
    \A t \in Restores :
        LET s == tasks[t].s3Location IN
        s # NULL /\ (NoSeparator(s) \/ s[1] = "/" \/ FirstSeparator(s, Len(s))) =>
            /\ tasks[t].settled = "rejected"
            /\ tasks[t].err = "locator"

\* restoreAnalysis has read a locator that ends with its first separator and
\* its chain has come to its end
C14_Witness ==
    \E t \in ClientCalls("restoreAnalysis") :
        /\ tasks[t].s3Location = <<"bucketname", "/">>
        /\ tasks[t].settled = "rejected"
        /\ tasks[t].pc = "done"

\* The same for restoreReport, with no separator and with a leading one
C14_ReportNoSeparator ==
    \E t \in ClientCalls("restoreReport") :
        tasks[t].s3Location = <<"bucketname">> /\ tasks[t].err = "locator"

C14_ReportLeadingSeparator ==
    \E t \in ClientCalls("restoreReport") :
        tasks[t].s3Location = <<"/", "path">> /\ tasks[t].err = "locator"

-----------------------------------------------------------------------------
(* C15: the script archiveReport runs at its end is atomic.  If it         *)
(* commits, the report and every analysis cascaded in the call are marked  *)
(* archived and their objects are dropped; until then, and if it fails,    *)
(* all of them are marked present with their objects intact.  In no state  *)
(* are only some of them marked archived by the call.                      *)

Cascaded(rec) ==
    {<<"report", rec.id>>} \cup { <<"analysis", rec.deps[i]>> : i \in 1..Len(rec.deps) }

Row(e) == IF e[1] = "report" THEN report[e[2]] ELSE analysis[e[2]]

PreRow(rec, e) == IF e[1] = "report" THEN rec.pre.report[e[2]] ELSE rec.pre.analysis[e[2]]

C15_FinalScriptAtomic ==
    \A t \in ClientCalls("archiveReport") :
        tasks[t].id \in Reports /\ IsPresent(tasks[t].pre.report[tasks[t].id]) =>
            IF tasks[t].settled = "resolved"
            THEN \A e \in Cascaded(tasks[t]) : IsArchived(Row(e)) /\ objs[e] = Absent
            ELSE \A e \in Cascaded(tasks[t]) :
                    /\ IsPresent(Row(e))
                    /\ Row(e) = PreRow(tasks[t], e)
                    /\ objs[e] # Absent
                    /\ objs[e] = tasks[t].pre.objs[e]

\* The script of an archiveReport with a cascaded analysis has failed
C15_Witness ==
    \E t \in ClientCalls("archiveReport") :
        /\ tasks[t].err = "execDBCmds"
        /\ Len(tasks[t].deps) > 0
        /\ Len(tasks[t].cleanCommands) > 4

\* The script of an archiveReport with two cascaded analyses has committed
C15_Committed ==
    \E t \in ClientCalls("archiveReport") :
        tasks[t].settled = "resolved" /\ Len(tasks[t].deps) = 2

-----------------------------------------------------------------------------
(* C16: archiveReport resolves only after its script has run with success, *)
(* and the locator it resolves with is the archive_location the script     *)
(* stored on the row of the report; a call in which a step failed, its own *)
(* or one of an archive it cascaded to, does not resolve.                  *)

C16_ResolvedOnlyAfterCommit ==
    \A t \in ClientCalls("archiveReport") :
        /\ tasks[t].settled = "resolved" =>
              /\ {"dump", "upload", "clean", "remove", "exec"} \subseteq tasks[t].did
              /\ tasks[t].s3Location # NULL
              /\ IsPresent(tasks[t].pre.report[tasks[t].id])
              /\ report[tasks[t].id].archive_location = tasks[t].s3Location
              /\ s3[<<s3_bucket, reportKey(tasks[t].id)>>] = tasks[t].pre.objs[<<"report", tasks[t].id>>]
              /\ tasks[t].s3Location =
                    s3_bucket \o <<"/">> \o reportKey(tasks[t].id)
        /\ (tasks[t].err # "none"
              \/ \E c \in Children(tasks, t) : tasks[c].settled = "rejected")
           => tasks[t].settled # "resolved"

\* An archiveReport with cascaded analyses has resolved after a failed call
C16_Witness ==
    \E t \in ClientCalls("archiveReport") :
        /\ tasks[t].settled = "resolved"
        /\ Len(tasks[t].deps) > 0
        /\ faults > 0

-----------------------------------------------------------------------------
(* C17: archiveReport rejects with AlreadyArchivedOrDoesNotExistError      *)
(* exactly when its validating read found no row: a call whose validating  *)
(* read found the row and whose dependency query was made does not reject  *)
(* with that error, and a call on a report that is archived or does not    *)
(* exist does.                                                             *)

C17_AlreadyArchivedOnlyWhenNoRow ==
    \A t \in ClientCalls("archiveReport") :
        /\ tasks[t].err = "AlreadyArchivedOrDoesNotExistError" =>
              "getDeps" \notin tasks[t].did
        /\ tasks[t].pc = "done"
              /\ ~(tasks[t].id \in Reports /\ IsPresent(tasks[t].pre.report[tasks[t].id]))
           => tasks[t].err = "AlreadyArchivedOrDoesNotExistError"

-----------------------------------------------------------------------------
(* C18: restoreReport(id) and restoreAnalysis(id) called for an id that    *)
(* matches no row, or for an entity that is not archived, reject, and do   *)
(* nothing before: no report is restored, nothing is downloaded, no dump   *)
(* is applied, no row changes.                                             *)

NotArchivedAtCall(rec) ==
    IF rec.kind = "restoreReport"
    THEN ~(rec.id \in Reports /\ IsArchived(rec.pre.report[rec.id]))
    ELSE ~(rec.id \in Analyses /\ IsArchived(rec.pre.analysis[rec.id]))

C18_RestoreOfNotArchivedRejected ==
    \A t \in ClientCalls("restoreReport") \cup ClientCalls("restoreAnalysis") :
        NotArchivedAtCall(tasks[t]) =>
            /\ tasks[t].pc \in (IF tasks[t].kind = "restoreReport"
                                 THEN {"genTmp", "getLoc", "done"} ELSE {"validate", "done"})
            /\ tasks[t].pc = "done" => tasks[t].settled = "rejected"
            /\ tasks[t].did = {}
            /\ tasks[t].request = <<>>
            /\ Children(tasks, t) = {}
            /\ DOMAIN tasks = {t}
            /\ Snapshot = tasks[t].pre

\* restoreAnalysis of a present analysis has been rejected
C18_Witness ==
    \E t \in ClientCalls("restoreAnalysis") :
        /\ tasks[t].id \in Analyses
        /\ IsPresent(tasks[t].pre.analysis[tasks[t].id])
        /\ ReportsOf(tasks[t].id) # {}
        /\ calls > 1
        /\ tasks[t].settled = "rejected"

\* The other cases: a present report, ids that match no row
C18_PresentReport ==
    \E t \in ClientCalls("restoreReport") :
        tasks[t].id \in Reports /\ tasks[t].settled = "rejected" /\ tasks[t].did = {}
        /\ tasks[t].err = "get_s3_location"

C18_NoSuchReport ==
    \E t \in ClientCalls("restoreReport") :
        tasks[t].id \notin Reports /\ tasks[t].settled = "rejected"

C18_NoSuchAnalysis ==
    \E t \in ClientCalls("restoreAnalysis") :
        tasks[t].id \notin Analyses /\ tasks[t].settled = "rejected"

-----------------------------------------------------------------------------
(* C19: in restoreReport and restoreAnalysis a failure of the restore of   *)
(* the dump, of the removal of the temporary file or of the row update     *)
(* leaves the row of the entity as it was: archive_location and            *)
(* archive_timestamp are still set, the entity is still marked archived,   *)
(* and its dump is still in the bucket for another restore.                *)

C19_FailedRestoreLeavesRowArchived ==
    \A t \in Restores :
        tasks[t].err \in {"restore", "removeFile", "db.none"} =>
            LET e == <<EntityKind(tasks[t].kind), tasks[t].id>> IN
            /\ Row(e) = PreRow(tasks[t], e)
            /\ Row(e).archive_location # NULL
            /\ Row(e).archive_timestamp # NULL
            /\ Archived(tasks[t].kind, tasks[t].id)
            /\ <<bucketOf(Row(e).archive_location), keyOf(Row(e).archive_location)>>
                  \in DOMAIN s3

\* The row update of a restoreReport has failed, after the dump was restored
C19_Witness ==
    \E t \in ClientCalls("restoreReport") :
        /\ tasks[t].err = "db.none"
        /\ {"restore", "remove", "reset"} \subseteq tasks[t].did
        /\ objs[<<"report", tasks[t].id>>] # Absent

\* The other failures, in restoreAnalysis
C19_RestoreFailed ==
    \E t \in ClientCalls("restoreAnalysis") :
        tasks[t].err = "restore" /\ "restore" \in tasks[t].did

C19_RemoveFailed ==
    \E t \in ClientCalls("restoreAnalysis") :
        tasks[t].err = "removeFile" /\ "remove" \in tasks[t].did

-----------------------------------------------------------------------------
(* C20: when pg_dump fails on the report's own objects in archiveReport,   *)
(* the call has changed no table and dropped no object, and what it has    *)
(* added to the bucket is exactly the dumps of the analyses it cascaded    *)
(* to, each under analysis_<id>.dump; with no dependent analysis the       *)
(* bucket is as it was.                                                    *)

OwnDumpFailed(rec) ==
    rec.kind = "archiveReport" /\ rec.err = "dump" /\ "dump" \in rec.did

CascadeKeys(rec) ==
    { <<s3_bucket, <<database, "/", schema, "/", "analysis_", ToString(rec.deps[i]), ".dump">> >> :
        i \in 1..Len(rec.deps) }

C20_ReportDumpFailureLeavesOnlyCascadeDumps ==
    \A t \in ClientCalls("archiveReport") :
        OwnDumpFailed(tasks[t]) =>
            /\ report = tasks[t].pre.report
            /\ analysis = tasks[t].pre.analysis
            /\ objs = tasks[t].pre.objs
            /\ DOMAIN s3 = DOMAIN tasks[t].pre.s3 \cup CascadeKeys(tasks[t])
            /\ \A k \in DOMAIN s3 \ CascadeKeys(tasks[t]) : s3[k] = tasks[t].pre.s3[k]
            /\ \A i \in 1..Len(tasks[t].deps) :
                  s3[<<s3_bucket, <<database, "/", schema, "/", "analysis_",
                                    ToString(tasks[t].deps[i]), ".dump">> >>]
                     = [kind |-> "analysis", id |-> tasks[t].deps[i]]
            /\ tasks[t].deps = <<>> => s3 = tasks[t].pre.s3

\* pg_dump has failed on a report with two cascaded analyses
C20_Witness ==
    \E t \in ClientCalls("archiveReport") :
        OwnDumpFailed(tasks[t]) /\ Len(tasks[t].deps) = 2

\* The same with no dependent analysis
C20_NoDependent ==
    \E t \in ClientCalls("archiveReport") :
        OwnDumpFailed(tasks[t]) /\ AnalysesOf(tasks[t].id) = {}

\* C20 as stated: the call has changed neither the database nor the bucket
C20_ReportDumpFailureMutatesNothing ==
    \A t \in ClientCalls("archiveReport") :
        OwnDumpFailed(tasks[t]) =>
            /\ report = tasks[t].pre.report
            /\ analysis = tasks[t].pre.analysis
            /\ objs = tasks[t].pre.objs
            /\ s3 = tasks[t].pre.s3

-----------------------------------------------------------------------------
(* C21: an analysis archived in a cascade is marked archived as soon as    *)
(* its own dump and upload are done and its archive has resolved, before   *)
(* the dump of the cascading report starts and whether or not the script   *)
(* of the report commits later.                                            *)

Cascades == { c \in DOMAIN tasks : tasks[c].kind = "archiveAnalysis" /\ tasks[c].parent > 0 }

C21_CascadedAnalysisMarkedAtOnce ==
    \A c \in Cascades :
        tasks[c].settled = "resolved" /\ {"dump", "upload"} \subseteq tasks[c].did =>
            IsArchived(analysis[tasks[c].id])

-----------------------------------------------------------------------------
(* C22: when archiveReport(R1) and archiveReport(R2) run at the same time  *)
(* and a present analysis A references both, A is dumped and uploaded by   *)
(* at most one of the two calls, and the statements that clean A up are in *)
(* at most one script that committed.                                      *)

C22_AnalysisArchivedByOneCallOnly ==
    /\ \A c, d \in Cascades :
          /\ tasks[c].id = tasks[d].id
          /\ tasks[tasks[c].parent].id # tasks[tasks[d].parent].id
          => ~(tasks[c].s3Location # NULL /\ tasks[d].s3Location # NULL)
    /\ \A p, q \in ClientCalls("archiveReport") : \A a \in Analyses :
          /\ p # q
          /\ tasks[p].settled = "resolved" /\ tasks[q].settled = "resolved"
          => ~(Contains(tasks[p].cleanCommands, DropStmt("analysis", a))
               /\ Contains(tasks[q].cleanCommands, DropStmt("analysis", a)))

-----------------------------------------------------------------------------
(* C23: archiveAnalysis(id) runs no statement against the database.  It    *)
(* dumps, uploads and resolves with the clean-up statements as data: the   *)
(* drop of the analysis's objects and the update of its row.  Until the    *)
(* script of a cascading archiveReport runs, the row and the objects of    *)
(* the analysis are as they were when archiveAnalysis was called.          *)

ScriptRan(rec) == rec.parent > 0 /\ "exec" \in tasks[rec.parent].did

C23_ArchiveAnalysisExecutesNothing ==
    \A t \in DOMAIN tasks :
        tasks[t].kind = "archiveAnalysis" =>
            /\ ~ScriptRan(tasks[t]) =>
                  /\ analysis[tasks[t].id] = tasks[t].pre.analysis[tasks[t].id]
                  /\ objs[<<"analysis", tasks[t].id>>]
                        = tasks[t].pre.objs[<<"analysis", tasks[t].id>>]
            /\ tasks[t].parent = 0 => report = tasks[t].pre.report /\ objs = tasks[t].pre.objs
            /\ tasks[t].settled = "resolved" =>
                  /\ {"dump", "upload"} \subseteq tasks[t].did
                  /\ tasks[t].cleanCommands =
                        << DropStmt("analysis", tasks[t].id),
                           UpdateStmt("analysis", tasks[t].id,
                                      s3_bucket \o <<"/">> \o analysisKey(tasks[t].id)) >>

\* A cascaded archiveAnalysis has resolved and the script of the report has
\* not run yet
C23_Witness ==
    \E c \in Cascades :
        /\ tasks[c].settled = "resolved"
        /\ tasks[tasks[c].parent].pc = "commit"
        /\ IsPresent(analysis[tasks[c].id])
        /\ objs[<<"analysis", tasks[c].id>>] # Absent

\* archiveAnalysis called by the client has resolved
C23_Standalone ==
    \E t \in ClientCalls("archiveAnalysis") :
        tasks[t].settled = "resolved" /\ IsPresent(analysis[tasks[t].id])

-----------------------------------------------------------------------------
(* C24: when the archive of a cascaded analysis fails inside               *)
(* archiveReport(R), archiveReport(R) rejects with the error of that       *)
(* archive, R is neither dumped nor uploaded, no statement runs against    *)
(* the database and R stays marked present.                                *)

C24_CascadeFailureStopsArchive ==
    \A t \in ClientCalls("archiveReport") :
        \A c \in Children(tasks, t) :
            tasks[c].settled = "rejected" =>
                /\ tasks[t].settled = "rejected"
                /\ tasks[t].pc = "done"
                /\ \E d \in Children(tasks, t) :
                      tasks[d].settled = "rejected" /\ tasks[t].err = tasks[d].err
                /\ tasks[t].did = {"getDeps"}
                /\ tasks[t].tmpFile = 0
                /\ tasks[t].s3Location = NULL
                /\ <<s3_bucket, reportKey(tasks[t].id)>> \in DOMAIN s3 =>
                      /\ <<s3_bucket, reportKey(tasks[t].id)>> \in DOMAIN tasks[t].pre.s3
                      /\ s3[<<s3_bucket, reportKey(tasks[t].id)>>]
                            = tasks[t].pre.s3[<<s3_bucket, reportKey(tasks[t].id)>>]
                /\ report = tasks[t].pre.report
                /\ analysis = tasks[t].pre.analysis
                /\ objs = tasks[t].pre.objs
                /\ IsPresent(report[tasks[t].id])

\* One of two cascaded archives has failed and everything has come to rest
C24_Witness ==
    \E t \in ClientCalls("archiveReport") :
        /\ Len(tasks[t].deps) = 2
        /\ \E c \in Children(tasks, t) : tasks[c].settled = "rejected"
        /\ Quiescent

-----------------------------------------------------------------------------
(* C25: when the restore of a report fails inside restoreAnalysis(A),      *)
(* restoreAnalysis(A) rejects, the dump of A is neither downloaded nor     *)
(* applied, A stays marked archived, and every report whose restore        *)
(* resolved in the cascade stays marked present with its objects.          *)

C25_CascadeFailureStopsRestore ==
    \A t \in ClientCalls("restoreAnalysis") :
        (\E c \in Children(tasks, t) : tasks[c].settled = "rejected") =>
            /\ tasks[t].settled = "rejected"
            /\ tasks[t].pc = "done"
            /\ tasks[t].did = {}
            /\ tasks[t].request = <<>>
            /\ tasks[t].tmpFile = 0
            /\ analysis = tasks[t].pre.analysis
            /\ IsArchived(analysis[tasks[t].id])
            /\ objs[<<"analysis", tasks[t].id>>]
                  = tasks[t].pre.objs[<<"analysis", tasks[t].id>>]
            /\ \A d \in Children(tasks, t) :
                  tasks[d].settled = "resolved" =>
                      /\ IsPresent(report[tasks[d].id])
                      /\ report[tasks[d].id].restore_timestamp # NULL
                      /\ objs[<<"report", tasks[d].id>>] = Data("report", tasks[d].id)

\* Of the two reports of an analysis one was restored and the restore of the
\* other failed
C25_Witness ==
    \E t \in ClientCalls("restoreAnalysis") :
        /\ \E c \in Children(tasks, t) : tasks[c].settled = "rejected"
        /\ \E d \in Children(tasks, t) : tasks[d].settled = "resolved"
        /\ Quiescent

-----------------------------------------------------------------------------
(* C26: when archiveReport(R) fails because the archive of one cascaded    *)
(* analysis fails, every sibling whose archive had succeeded is marked     *)
(* archived once archiveReport(R) has settled.                             *)

C26_SucceededSiblingsStayArchived ==
    \A t \in ClientCalls("archiveReport") :
        /\ tasks[t].settled = "rejected"
        /\ \E c \in Children(tasks, t) : tasks[c].settled = "rejected"
        => \A d \in Children(tasks, t) :
              tasks[d].settled = "resolved" => IsArchived(analysis[tasks[d].id])

-----------------------------------------------------------------------------
(* C27: in every state and for every row of report and analysis,           *)
(* archive_location is set exactly when archive_timestamp is set, and      *)
(* restore_timestamp is null whenever archive_location is set; after a     *)
(* restore that resolved, archive_location and archive_timestamp are null  *)
(* and restore_timestamp is set.                                           *)

Rows == { report[r] : r \in Reports } \cup { analysis[a] : a \in Analyses }

C27_ArchiveColumnsConsistent ==
    /\ \A row \in Rows :
          /\ row.archive_location # NULL <=> row.archive_timestamp # NULL
          /\ row.archive_location # NULL => row.restore_timestamp = NULL
    /\ \A t \in Restores :
          tasks[t].settled = "resolved" =>
              LET row == Row(<<EntityKind(tasks[t].kind), tasks[t].id>>) IN
              /\ row.archive_location = NULL
              /\ row.archive_timestamp = NULL
              /\ row.restore_timestamp # NULL

\* A report that had been restored has been archived again
C27_Witness ==
    \E t \in ClientCalls("archiveReport") :
        /\ tasks[t].settled = "resolved"
        /\ tasks[t].pre.report[tasks[t].id].restore_timestamp # NULL
        /\ report[tasks[t].id].archive_location # NULL
        /\ report[tasks[t].id].restore_timestamp = NULL

\* An analysis and a report have been restored
C27_Restored ==
    \E t \in ClientCalls("restoreAnalysis") :
        /\ tasks[t].settled = "resolved"
        /\ \E c \in Children(tasks, t) : tasks[c].settled = "resolved"

-----------------------------------------------------------------------------
(* C28: the dependent analyses archiveReport gets from the resolver are    *)
(* exactly the analyses linked to the report whose archive_location is     *)
(* null when the query runs, each once: none archived, none unlinked,      *)
(* none missing.  The query changes nothing, and with an empty result      *)
(* archiveReport goes on with no cascade.                                  *)

Elements(seq) == { seq[i] : i \in 1..Len(seq) }

C28_DependentAnalysesExact ==
    \A t \in ClientCalls("archiveReport") :
        "getDeps" \in tasks[t].did /\ tasks[t].err # "AlreadyArchivedOrDoesNotExistError" =>
            /\ \A a \in Analyses :
                  a \in Elements(tasks[t].deps) <=>
                      /\ <<a, tasks[t].id>> \in analysis_report
                      /\ tasks[t].pre.analysis[a].archive_location = NULL
            /\ Elements(tasks[t].deps) \subseteq Analyses
            /\ Cardinality(Elements(tasks[t].deps)) = Len(tasks[t].deps)
            /\ { tasks[c].id : c \in Children(tasks, t) } = Elements(tasks[t].deps)
            /\ tasks[t].deps = <<>> => tasks[t].pc # "await"
            /\ (tasks[t].did = {"getDeps"} /\ \A c \in Children(tasks, t) : tasks[c].did = {})
                  => Snapshot = tasks[t].pre

\* The resolver has left out an archived analysis linked to the report and
\* returned a present one
C28_Witness ==
    \E t \in ClientCalls("archiveReport") :
        /\ Len(tasks[t].deps) = 1
        /\ \E a \in AnalysesOf(tasks[t].id) : IsArchived(tasks[t].pre.analysis[a])

\* The resolver has left out a present analysis that is not linked to the report
C28_Unlinked ==
    \E t \in ClientCalls("archiveReport") :
        /\ Len(tasks[t].deps) = 1
        /\ \E a \in Analyses : ~Linked(a, tasks[t].id) /\ IsPresent(tasks[t].pre.analysis[a])

\* The resolver has returned the empty set and the report has been archived
C28_Empty ==
    \E t \in ClientCalls("archiveReport") :
        /\ "getDeps" \in tasks[t].did /\ tasks[t].deps = <<>>
        /\ tasks[t].settled = "resolved"

-----------------------------------------------------------------------------
(* C29: the needed reports restoreAnalysis gets from the resolver are      *)
(* exactly the reports the analysis is linked to whose archive_location    *)
(* is set when the query runs, each once: none present, none unlinked,     *)
(* none missing.  The query changes nothing.                               *)

C29_NeededReportsExact ==
    \A t \in ClientCalls("restoreAnalysis") :
        /\ tasks[t].pc \notin {"validate", "getDeps"}
        /\ tasks[t].err # "NotArchivedOrDoesNotExist"
        => /\ \A r \in Reports :
                 r \in Elements(tasks[t].deps) <=>
                     /\ <<tasks[t].id, r>> \in analysis_report
                     /\ tasks[t].pre.report[r].archive_location # NULL
           /\ Elements(tasks[t].deps) \subseteq Reports
           /\ Cardinality(Elements(tasks[t].deps)) = Len(tasks[t].deps)
           /\ { tasks[c].id : c \in Children(tasks, t) } = Elements(tasks[t].deps)
           /\ (tasks[t].pc = "await" /\ \A c \in Children(tasks, t) : tasks[c].pc = "genTmp")
                 => Snapshot = tasks[t].pre

\* The resolver has left out a present report of the analysis and an archived
\* report the analysis is not linked to, and returned an archived one
C29_Witness ==
    \E t \in ClientCalls("restoreAnalysis") :
        /\ Len(tasks[t].deps) = 1
        /\ \E r \in ReportsOf(tasks[t].id) : IsPresent(tasks[t].pre.report[r])
        /\ tasks[t].pc # "done"

\* An archived report the analysis is not linked to has been left out
C29_Unlinked ==
    \E t \in ClientCalls("restoreAnalysis") :
        /\ tasks[t].pc = "genTmp"
        /\ \E r \in Reports : ~Linked(tasks[t].id, r) /\ IsArchived(tasks[t].pre.report[r])

-----------------------------------------------------------------------------
(* C30: a failure of the removal of the temporary file does not change     *)
(* the outcome of a call: a call that has come to the removal goes on to   *)
(* its update of the database (the script of archiveReport, the reset of   *)
(* the row in restoreReport and restoreAnalysis), and no call is rejected  *)
(* with the error of the removal.                                          *)

C30_CleanupFailureNotTheOutcome ==
    \A t \in ClientCalls("archiveReport") \cup ClientCalls("restoreReport")
              \cup ClientCalls("restoreAnalysis") :
        /\ tasks[t].err # "removeFile"
        /\ "remove" \in tasks[t].did /\ tasks[t].pc = "done" =>
              ("exec" \in tasks[t].did \/ "reset" \in tasks[t].did)

-----------------------------------------------------------------------------
(* C31: whatever the interleaving of overlapping calls of archiveReport,   *)
(* restoreReport and restoreAnalysis, once every call has settled and      *)
(* nothing is in flight no report is marked archived while an analysis     *)
(* that depends on it is marked present.                                   *)

C31_OverlappingCallsKeepDependencies ==
    Quiescent =>
        \A r \in Reports : \A a \in AnalysesOf(r) :
            IsPresent(analysis[a]) => IsPresent(report[r])

-----------------------------------------------------------------------------
(* C32: once a call of archiveReport or restoreAnalysis has settled, none  *)
(* of the chains its cascade started is still running: every cascade       *)
(* child has ended, so none dumps, uploads, downloads, restores or updates *)
(* a row after the promise of the call has settled.                        *)

C32_NothingInFlightAfterSettling ==
    \A t \in ClientCalls("archiveReport") \cup ClientCalls("restoreAnalysis") :
        tasks[t].settled # "pending" =>
            \A c \in Children(tasks, t) : tasks[c].pc = "done"

-----------------------------------------------------------------------------
(* C33: when restoreReport or restoreAnalysis has read a malformed locator *)
(* its chain stops there: it sends no request to the object store, applies *)
(* no dump, and leaves the row of its entity as it was.                    *)

C33_MalformedLocatorStopsTheChain ==
    \A t \in Restores :
        LET s == tasks[t].s3Location IN
        s # NULL /\ (NoSeparator(s) \/ s[1] = "/" \/ FirstSeparator(s, Len(s))) =>
            /\ "download" \notin tasks[t].did
            /\ tasks[t].request = <<>>
            /\ "restore" \notin tasks[t].did
            /\ "reset" \notin tasks[t].did
            /\ LET e == <<EntityKind(tasks[t].kind), tasks[t].id>> IN
               /\ Row(e) = PreRow(tasks[t], e)
               /\ objs[e] = tasks[t].pre.objs[e]

-----------------------------------------------------------------------------
(* C34: with calls run one at a time, in every state, those inside a call  *)
(* and those a failed call leaves included, every entity marked present    *)
(* has its objects in the database: the objects are dropped only by the    *)
(* script that marks the entity archived, and a restore recreates them     *)
(* before it marks the row present.                                        *)

C34_PresentEntityHasItsObjects ==
    \A e \in Entities :
        IsPresent(Row(e)) => objs[e] = Data(e[1], e[2])

\* A restore has recreated the objects of its entity and was rejected before
\* the reset of the row, after the entity had been archived by an earlier call
C34_Witness ==
    \E t \in Restores :
        LET e == <<EntityKind(tasks[t].kind), tasks[t].id>> IN
        /\ "restore" \in tasks[t].did
        /\ tasks[t].err = "removeFile"
        /\ tasks[t].pc = "done"
        /\ IsArchived(Row(e))
        /\ objs[e] = Data(e[1], e[2])

\* The script of archiveReport has failed part of the way: the report and the
\* analysis it cascaded are still present, with their objects
C34_ScriptFailed ==
    \E t \in ClientCalls("archiveReport") :
        /\ tasks[t].err = "execDBCmds"
        /\ Len(tasks[t].deps) > 0
        /\ \A e \in Cascaded(tasks[t]) : IsPresent(Row(e))

\* A restore has reset the row of its entity
C34_Restored ==
    \E t \in Restores :
        /\ tasks[t].settled = "resolved"
        /\ IsPresent(Row(<<EntityKind(tasks[t].kind), tasks[t].id>>))

-----------------------------------------------------------------------------
(* C35: if every collaborator call returns in the end, every call of       *)
(* archiveReport, archiveAnalysis, restoreReport and restoreAnalysis, made *)
(* by the client or by a cascade, settles in the end; and a call that has  *)
(* settled stays as it settled, resolved or rejected with its first error. *)

AllSettled == \A t \in DOMAIN tasks : tasks[t].settled # "pending"

SettledOnce ==
    \A t \in DOMAIN tasks :
        calls' = calls /\ tasks[t].settled # "pending" =>
            /\ t \in DOMAIN tasks'
            /\ tasks'[t].settled = tasks[t].settled
            /\ tasks'[t].err = tasks[t].err

C35_EveryCallSettlesOnce ==
    /\ ~AllSettled ~> (AllSettled /\ Quiescent)
    /\ [][SettledOnce]_vars

\* archiveReport has resolved after a cascade of two analyses, and a call
\* made before it was rejected
C35_Witness ==
    /\ \E t \in ClientCalls("archiveReport") :
          /\ tasks[t].settled = "resolved"
          /\ Len(tasks[t].deps) = 2
          /\ \A c \in Children(tasks, t) : tasks[c].settled = "resolved"
    /\ faults > 0
    /\ Quiescent

\* A call has been rejected while a chain it started goes on
C35_RejectedEarly ==
    \E t \in DOMAIN tasks : tasks[t].settled = "rejected" /\ tasks[t].pc # "done"

====
